---------------------------- MODULE Spec2Model ----------------------------
(***************************************************************************)
(* String-sizing engine of solar_platform (modules/string_sizing.py):      *)
(* StringSizer.calculate_string_size, calculate_system_configuration and   *)
(* generate_configuration_table, as Python executes them.                  *)
(*                                                                         *)
(* Numbers.  The code computes with Python floats.  The model computes     *)
(* with exact rationals [n, d] (d > 0, lowest terms), so floor, ceil and   *)
(* round are those of the real number the float approximates.  A Python    *)
(* dict is a function from field names to rationals; a field that is       *)
(* absent from the dict is absent from the function's domain.              *)
(*                                                                         *)
(* Exceptions.  Every operation yields an outcome: kind "returned" with a  *)
(* result, or kind "raised" with the exception type, its argument and the  *)
(* source line that raised it.                                             *)
(***************************************************************************)
EXTENDS Integers, Sequences, FiniteSets, TLC

\* ------------------------------------------------------------------------
\* Python float arithmetic, as exact rationals
\* ------------------------------------------------------------------------

Abs(x) == IF x < 0 THEN -x ELSE x

RECURSIVE GCD(_, _)
GCD(a, b) == IF b = 0 THEN a ELSE GCD(b, a % b)

\* the rational n/d in lowest terms with a positive denominator (d # 0)
Rat(n, d) ==
    LET g == GCD(Abs(n), Abs(d))
        s == IF d < 0 THEN -1 ELSE 1
    IN  [n |-> s * (n \div g), d |-> s * (d \div g)]

Num(k) == [n |-> k, d |-> 1]

\* x * y; common factors are cancelled before multiplying
RMul(x, y) ==
    LET g1 == GCD(Abs(x.n), y.d)
        g2 == GCD(Abs(y.n), x.d)
    IN  Rat((x.n \div g1) * (y.n \div g2), (x.d \div g2) * (y.d \div g1))

RAdd(x, y) ==
    LET g == GCD(x.d, y.d)
    IN  Rat(x.n * (y.d \div g) + y.n * (x.d \div g), (x.d \div g) * y.d)

RNeg(x) == [n |-> -x.n, d |-> x.d]

RSub(x, y) == RAdd(x, RNeg(y))

\* x / y for y # 0 (Python raises ZeroDivisionError before dividing by 0)
RDiv(x, y) ==
    RMul(x, IF y.n < 0 THEN [n |-> -y.d, d |-> -y.n] ELSE [n |-> y.d, d |-> y.n])

RIsZero(x) == x.n = 0

RLt(x, y) == RSub(x, y).n < 0

RLe(x, y) == RSub(x, y).n <= 0

\* x ** k for an integer k >= 0
RECURSIVE RPow(_, _)
RPow(x, k) == IF k = 0 THEN Num(1) ELSE RMul(x, RPow(x, k - 1))

\* int(np.floor(x))
Floor(x) == x.n \div x.d

\* int(np.ceil(x))
Ceil(x) == -((-x.n) \div x.d)

\* int(np.round(x)): numpy rounds a half-way value to the even neighbour
Round(x) ==
    LET f == Floor(x)
        twice == RSub(RMul(Num(2), x), Num(2 * f + 1))
    IN  IF twice.n < 0 THEN f
        ELSE IF twice.n > 0 THEN f + 1
        ELSE IF f % 2 = 0 THEN f ELSE f + 1

Min(a, b) == IF a < b THEN a ELSE b

Max(a, b) == IF a > b THEN a ELSE b

\* ------------------------------------------------------------------------
\* Python dicts and exceptions
\* ------------------------------------------------------------------------

Has(dict, key) == key \in DOMAIN dict

\* dict.get(key, default)
Get(dict, key, default) == IF Has(dict, key) THEN dict[key] ELSE default

\* None, where a number (or a table) may stand
None == [n |-> 0, d |-> 0]

\* truth value of an int-or-None in a condition: None and 0 are false
Truthy(x) == x # None /\ x.n # 0

\* a // b and a % b on Python ints, b # 0 (the result takes the sign of b)
PyFloorDiv(a, b) == IF b > 0 THEN a \div b ELSE (-a) \div (-b)

PyMod(a, b) == IF b > 0 THEN a % b ELSE -((-a) % (-b))

Returned(value) ==
    [kind |-> "returned", exc |-> "", arg |-> "", line |-> 0, value |-> value]

Raise(exc, arg, line) ==
    [kind |-> "raised", exc |-> exc, arg |-> arg, line |-> line, value |-> <<>>]

NoOutcome == [kind |-> "none", exc |-> "", arg |-> "", line |-> 0, value |-> <<>>]

\* float('inf')
Inf == [n |-> 1, d |-> 0]

\* ------------------------------------------------------------------------
\* Module namespace of string_sizing.py
\* ------------------------------------------------------------------------

\* The names the module binds at import (lines 13-25, 28, 457-591).  A name a
\* function body reads without assigning it is looked up here when the line
\* runs, and the lookup raises NameError if the name is not bound.
ModuleNames ==
    {"pd", "np", "Dict", "List", "Optional", "Tuple", "logging", "pvlib",
     "pvsystem", "temperature", "logger", "StringSizer",
     "calculate_voc_at_temperature", "calculate_vmp_at_temperature",
     "estimate_cell_temperature", "COMMON_MODULES", "COMMON_INVERTERS"}

\* The two names calculate_string_size reads that are neither its parameters
\* (lines 37-43) nor its locals.
FreeNames == {"consider_degradation", "project_lifetime_years"}

\* ------------------------------------------------------------------------
\* Preset catalogs (lines 526-591)
\* ------------------------------------------------------------------------

COMMON_MODULES ==
    [x \in {"Generic 400W Mono", "Generic 500W Mono", "Generic 600W Bifacial"} |->
        CASE x = "Generic 400W Mono" ->
                [v_oc |-> Rat(495, 10), v_mp |-> Rat(417, 10),
                 i_sc |-> Rat(108, 10), i_mp |-> Rat(96, 10),
                 temp_coeff_v_oc |-> Rat(-28, 100),
                 temp_coeff_v_mp |-> Rat(-37, 100),
                 cells_in_series |-> Num(144)]
          [] x = "Generic 500W Mono" ->
                [v_oc |-> Rat(498, 10), v_mp |-> Rat(419, 10),
                 i_sc |-> Rat(135, 10), i_mp |-> Rat(119, 10),
                 temp_coeff_v_oc |-> Rat(-26, 100),
                 temp_coeff_v_mp |-> Rat(-35, 100),
                 cells_in_series |-> Num(144)]
          [] x = "Generic 600W Bifacial" ->
                [v_oc |-> Rat(502, 10), v_mp |-> Rat(421, 10),
                 i_sc |-> Rat(161, 10), i_mp |-> Rat(143, 10),
                 temp_coeff_v_oc |-> Rat(-25, 100),
                 temp_coeff_v_mp |-> Rat(-34, 100),
                 cells_in_series |-> Num(144)]]

Inverter(mppt_min, mppt_max, vdc_max, idc_max, max_power, ac_power) ==
    [mppt_min_voltage |-> Num(mppt_min), mppt_max_voltage |-> Num(mppt_max),
     vdc_max |-> Num(vdc_max), idc_max |-> Num(idc_max),
     max_power |-> Num(max_power), ac_power |-> Num(ac_power)]

COMMON_INVERTERS ==
    [x \in {"Generic String 100kW", "Generic String 150kW",
            "Generic Central 1MW", "Generic String 1500V"} |->
        CASE x = "Generic String 100kW" ->
                Inverter(450, 800, 1000, 280, 137000, 100000)
          [] x = "Generic String 150kW" ->
                Inverter(500, 850, 1100, 400, 205000, 150000)
          [] x = "Generic Central 1MW" ->
                Inverter(600, 900, 1100, 2500, 1200000, 1000000)
          [] x = "Generic String 1500V" ->
                Inverter(875, 1300, 1500, 280, 250000, 185000)]

\* ------------------------------------------------------------------------
\* Warnings of calculate_string_size (lines 245-297), by their fixed text
\* ------------------------------------------------------------------------

W_NoValidString == "CRITICAL: No valid string configuration!"

W_VerySmall == "WARNING: Maximum string size is very small."

W_BolUndervoltage == "WARNING: BOL string voltage may be below MPPT minimum"

W_EolAdditional == "DEGRADATION IMPACT: Additional module(s) required"

W_EolCritical == "CRITICAL: Recommended configuration falls below MPPT minimum at EOL!"

W_EolLowMargin5 == "WARNING: Recommended configuration has <5% margin above MPPT min at EOL."

W_EolLowMargin10 == "WARNING: Minimum string size has low EOL margin"

\* "No valid string" in warning (line 328): of the seven texts only the first
\* holds that substring
ContainsNoValidString(warning) == warning = W_NoValidString

\* results['warnings'].append(w) when cond
AppendIf(warnings, cond, w) == IF cond THEN Append(warnings, w) ELSE warnings

\* ------------------------------------------------------------------------
\* StringSizer.calculate_string_size (lines 37-300)
\* ------------------------------------------------------------------------

\* the first key of keys (in order) that dict lacks, or "" if it has them all
RECURSIVE FirstMissing(_, _)
FirstMissing(dict, keys) ==
    IF keys = <<>> THEN ""
    ELSE IF ~Has(dict, Head(keys)) THEN Head(keys)
    ELSE FirstMissing(dict, Tail(keys))

\* lines 189-212: the lifecycle table, one row per listed year <= lifetime
RECURSIVE LifecycleRows(_, _, _, _, _, _, _)
LifecycleRows(years, project_lifetime_years, degradation_rate, v_mp_hot_bol, v_mp_stc, mppt_min, min_modules) ==
    IF years = <<>> THEN <<>>
    ELSE
        LET year == Head(years)
            rest == LifecycleRows(Tail(years), project_lifetime_years,
                                  degradation_rate, v_mp_hot_bol, v_mp_stc,
                                  mppt_min, min_modules)
            year_degradation == RPow(RSub(Num(1), degradation_rate), year)
            v_mp_hot_year == RMul(v_mp_hot_bol, year_degradation)
            v_mp_stc_year == RMul(v_mp_stc, year_degradation)
        IN  IF year > project_lifetime_years THEN rest
            ELSE <<[year |-> year,
                    degradation_factor |-> year_degradation,
                    remaining_power_pct |-> RMul(year_degradation, Num(100)),
                    v_mp_hot |-> v_mp_hot_year,
                    v_mp_stc |-> v_mp_stc_year,
                    above_mppt_min |->
                        IF min_modules > 0
                        THEN RLt(RDiv(mppt_min, Num(min_modules)), v_mp_hot_year)
                        ELSE FALSE]>> \o rest

\* lines 76-93 and 123: the values read from the three dicts (all required
\* fields present), with safety_factor
ExtractParameters(module_params, inverter_params, site_params, safety_factor) ==
    [v_oc_stc |-> module_params["v_oc"],
     v_mp_stc |-> module_params["v_mp"],
     i_sc_stc |-> module_params["i_sc"],
     i_mp_stc |-> module_params["i_mp"],
     temp_coeff_voc |->
        RDiv(Get(module_params, "temp_coeff_v_oc", Rat(-29, 100)), Num(100)),
     temp_coeff_vmp |->
        RDiv(Get(module_params, "temp_coeff_v_mp", Rat(-35, 100)), Num(100)),
     degradation_rate |->
        RDiv(Get(module_params, "degradation_rate", Rat(5, 10)), Num(100)),
     min_temp |-> site_params["min_temp"],
     max_temp |-> site_params["max_temp"],
     mppt_min |-> inverter_params["mppt_min_voltage"],
     mppt_max |-> inverter_params["mppt_max_voltage"],
     vdc_max |-> inverter_params["vdc_max"],
     elevation |-> Get(site_params, "elevation", Num(0)),
     safety_factor |-> safety_factor]

\* V(T) = V_stc * (1 + temp_coeff * (T - 25)) (lines 98-99, 103-104, 133)
AtTemperature(v_stc, temp_coeff, temp) ==
    RMul(v_stc, RAdd(Num(1), RMul(temp_coeff, RSub(temp, Num(25)))))

\* lines 95-126 and 133, 178-187: the module voltages at the design conditions
TemperatureVoltages(p, consider_degradation, project_lifetime_years) ==
    LET v_oc_cold == AtTemperature(p.v_oc_stc, p.temp_coeff_voc, p.min_temp)
        v_mp_hot_bol == AtTemperature(p.v_mp_stc, p.temp_coeff_vmp, p.max_temp)
        degradation_factor ==
            IF consider_degradation
            THEN RPow(RSub(Num(1), p.degradation_rate), project_lifetime_years)
            ELSE Num(1)
        elevation_factor ==
            RAdd(Num(1), RMul(RDiv(p.elevation, Num(300)), Rat(1, 100)))
    IN  [v_oc_cold_bol |-> RMul(RMul(v_oc_cold, elevation_factor), p.safety_factor),
         v_oc_stc_bol |-> p.v_oc_stc,
         v_mp_cold_bol |-> AtTemperature(p.v_mp_stc, p.temp_coeff_vmp, p.min_temp),
         v_mp_stc_bol |-> p.v_mp_stc,
         v_mp_hot_bol |-> v_mp_hot_bol,
         v_mp_hot_eol |->
            IF consider_degradation THEN RMul(v_mp_hot_bol, degradation_factor)
            ELSE v_mp_hot_bol,
         v_mp_stc_eol |->
            IF consider_degradation THEN RMul(p.v_mp_stc, degradation_factor)
            ELSE p.v_mp_stc]

\* lines 128-176 and 214-215: the module and string counts
ModuleCounts(p, voltages, consider_degradation, inverter_params) ==
    LET max_modules_voc == Floor(RDiv(p.vdc_max, voltages.v_oc_cold_bol))
        max_modules_mppt == Floor(RDiv(p.mppt_max, voltages.v_mp_cold_bol))
        max_modules == Min(max_modules_voc, max_modules_mppt)
        min_modules_bol == Ceil(RDiv(p.mppt_min, voltages.v_mp_hot_bol))
        min_modules_eol ==
            IF consider_degradation
            THEN Ceil(RDiv(p.mppt_min, voltages.v_mp_hot_eol))
            ELSE min_modules_bol
        min_modules ==
            Max(1, IF consider_degradation
                   THEN Max(min_modules_bol, min_modules_eol)
                   ELSE min_modules_bol)
    IN  [max_modules_voc |-> max_modules_voc,
         max_modules_mppt |-> max_modules_mppt,
         max_modules |-> max_modules,
         min_modules_bol |-> min_modules_bol,
         min_modules_eol |-> min_modules_eol,
         min_modules |-> min_modules,
         max_strings_current |->
            IF Has(inverter_params, "idc_max")
            THEN Num(Floor(RDiv(inverter_params["idc_max"], p.i_mp_stc)))
            ELSE None,
         max_modules_power |->
            IF Has(inverter_params, "max_power")
            THEN Num(Floor(RDiv(inverter_params["max_power"],
                                RMul(p.v_mp_stc, p.i_mp_stc))))
            ELSE None,
         recommended |-> Round(Rat(min_modules + max_modules, 2))]

\* lines 245-297: the warnings, in the order the code appends them
Warnings(p, voltages, c, consider_degradation) ==
    LET bol ==
            AppendIf(
                AppendIf(
                    AppendIf(<<>>, c.min_modules > c.max_modules, W_NoValidString),
                    c.max_modules < 2, W_VerySmall),
                RLt(RMul(Num(c.min_modules), voltages.v_mp_hot_bol), p.mppt_min),
                W_BolUndervoltage)
        recommended_v_mp_hot_eol == RMul(Num(c.recommended), voltages.v_mp_hot_eol)
        min_v_mp_hot_eol == RMul(Num(c.min_modules), voltages.v_mp_hot_eol)
        eol_margin_pct ==
            RMul(RDiv(RSub(min_v_mp_hot_eol, p.mppt_min), p.mppt_min), Num(100))
    IN  IF ~consider_degradation THEN bol
        ELSE AppendIf(
                AppendIf(
                    AppendIf(
                        AppendIf(bol, c.min_modules_eol > c.min_modules_bol,
                                 W_EolAdditional),
                        RLt(recommended_v_mp_hot_eol, p.mppt_min),
                        W_EolCritical),
                    ~RLt(recommended_v_mp_hot_eol, p.mppt_min)
                    /\ RLt(recommended_v_mp_hot_eol,
                           RMul(p.mppt_min, Rat(105, 100))),
                    W_EolLowMargin5),
                RLt(eol_margin_pct, Num(10)), W_EolLowMargin10)

\* lines 189-243: the returned dict
Results(p, voltages, c, consider_degradation, project_lifetime_years) ==
    [min_modules_per_string |-> c.min_modules,
     max_modules_per_string |-> c.max_modules,
     recommended_modules_per_string |-> c.recommended,
     min_modules_bol |-> c.min_modules_bol,
     min_modules_eol |->
        IF consider_degradation THEN Num(c.min_modules_eol) ELSE None,
     limiting_factor_max |->
        IF c.max_modules_voc < c.max_modules_mppt THEN "Voc_max" ELSE "MPPT_max",
     limiting_factor_min |->
        IF consider_degradation /\ c.min_modules_eol > c.min_modules_bol
        THEN "EOL_MPPT_min" ELSE "BOL_MPPT_min",
     voltages |-> voltages,
     string_voltage_range |->
        [min_bol |-> RMul(Num(c.min_modules), voltages.v_mp_hot_bol),
         min_eol |->
            IF consider_degradation
            THEN RMul(Num(c.min_modules), voltages.v_mp_hot_eol) ELSE None,
         max |-> RMul(Num(c.max_modules), voltages.v_mp_cold_bol),
         recommended_bol |-> RMul(Num(c.recommended), voltages.v_mp_stc_bol),
         recommended_eol |->
            IF consider_degradation
            THEN RMul(Num(c.recommended), voltages.v_mp_stc_eol) ELSE None],
     max_strings_per_inverter_current |-> c.max_strings_current,
     max_modules_power_limit |-> c.max_modules_power,
     degradation_analysis |->
        [enabled |-> consider_degradation,
         degradation_rate_pct_per_year |->
            IF consider_degradation THEN RMul(p.degradation_rate, Num(100))
            ELSE None,
         project_lifetime_years |->
            IF consider_degradation THEN Num(project_lifetime_years) ELSE None,
         eol_power_retention_pct |->
            IF consider_degradation
            THEN RMul(RPow(RSub(Num(1), p.degradation_rate),
                           project_lifetime_years), Num(100))
            ELSE None,
         lifecycle_analysis |->
            IF consider_degradation
            THEN LifecycleRows(<<0, 5, 10, 15, 20, 25, 30>>,
                               project_lifetime_years, p.degradation_rate,
                               voltages.v_mp_hot_bol, p.v_mp_stc, p.mppt_min,
                               c.min_modules)
            ELSE None],
     warnings |-> Warnings(p, voltages, c, consider_degradation)]

\* lines 178-300, the counts known
ReportStringSize(p, voltages, c, consider_degradation, project_lifetime_years) ==
    IF consider_degradation /\ RIsZero(p.mppt_min)
    THEN Raise("ZeroDivisionError", "float division by zero", 292)
    ELSE Returned(Results(p, voltages, c, consider_degradation,
                          project_lifetime_years))

\* lines 128-300, the voltages known: each division raises on a zero divisor
CountModules(p, voltages, consider_degradation, project_lifetime_years, inverter_params) ==
    IF RIsZero(voltages.v_oc_cold_bol)
    THEN Raise("ZeroDivisionError", "float division by zero", 129)
    ELSE IF RIsZero(voltages.v_mp_cold_bol)
    THEN Raise("ZeroDivisionError", "float division by zero", 134)
    ELSE IF RIsZero(voltages.v_mp_hot_bol)
    THEN Raise("ZeroDivisionError", "float division by zero", 141)
    ELSE IF consider_degradation /\ RIsZero(voltages.v_mp_hot_eol)
    THEN Raise("ZeroDivisionError", "float division by zero", 145)
    ELSE IF Has(inverter_params, "idc_max") /\ RIsZero(p.i_mp_stc)
    THEN Raise("ZeroDivisionError", "float division by zero", 166)
    ELSE IF Has(inverter_params, "max_power") /\ RIsZero(RMul(p.v_mp_stc, p.i_mp_stc))
    THEN Raise("ZeroDivisionError", "float division by zero", 174)
    ELSE ReportStringSize(p, voltages,
                          ModuleCounts(p, voltages, consider_degradation,
                                       inverter_params),
                          consider_degradation, project_lifetime_years)

\* lines 106-126, both names bound
CorrectVoltages(p, consider_degradation, project_lifetime_years, inverter_params) ==
    CountModules(p,
                 TemperatureVoltages(p, consider_degradation, project_lifetime_years),
                 consider_degradation, project_lifetime_years, inverter_params)

\* lines 95-300, the parameters extracted.  Line 109 is the first to read
\* consider_degradation; line 110 the first to read project_lifetime_years,
\* which is read only where consider_degradation is true.
SizeString(globals, p, inverter_params) ==
    IF ~Has(globals, "consider_degradation")
    THEN Raise("NameError", "consider_degradation", 109)
    ELSE IF globals["consider_degradation"] /\ ~Has(globals, "project_lifetime_years")
    THEN Raise("NameError", "project_lifetime_years", 110)
    ELSE CorrectVoltages(p, globals["consider_degradation"],
                         IF globals["consider_degradation"]
                         THEN globals["project_lifetime_years"] ELSE 0,
                         inverter_params)

calculate_string_size(globals, module_params, inverter_params, site_params, safety_factor) ==
    LET missing_module == FirstMissing(module_params, <<"v_oc", "v_mp", "i_sc", "i_mp">>)
        missing_site == FirstMissing(site_params, <<"min_temp", "max_temp">>)
        missing_inverter ==
            FirstMissing(inverter_params,
                         <<"mppt_min_voltage", "mppt_max_voltage", "vdc_max">>)
    IN  \* the statements in source order; the first that raises ends the call
        IF missing_module # ""
        THEN Raise("KeyError", missing_module,
                   CASE missing_module = "v_oc" -> 77
                     [] missing_module = "v_mp" -> 78
                     [] missing_module = "i_sc" -> 79
                     [] OTHER -> 80)
        ELSE IF missing_site # ""
        THEN Raise("KeyError", missing_site,
                   IF missing_site = "min_temp" THEN 88 ELSE 89)
        ELSE IF missing_inverter # ""
        THEN Raise("KeyError", missing_inverter,
                   CASE missing_inverter = "mppt_min_voltage" -> 91
                     [] missing_inverter = "mppt_max_voltage" -> 92
                     [] OTHER -> 93)
        ELSE SizeString(globals,
                        ExtractParameters(module_params, inverter_params,
                                          site_params, safety_factor),
                        inverter_params)

\* ------------------------------------------------------------------------
\* StringSizer.calculate_system_configuration (lines 302-403)
\* ------------------------------------------------------------------------

\* lines 334-340: the modules per string used
ModulesPerString(modules_per_string, string_results) ==
    IF modules_per_string = None
    THEN string_results.recommended_modules_per_string
    ELSE IF modules_per_string.n < string_results.min_modules_per_string
    THEN string_results.min_modules_per_string
    ELSE IF modules_per_string.n > string_results.max_modules_per_string
    THEN string_results.max_modules_per_string
    ELSE modules_per_string.n

\* line 346
TotalModules(system_size_kw, module_power_w) ==
    Round(RDiv(RMul(system_size_kw, Num(1000)), module_power_w))

\* line 349
TotalStrings(total_modules, mps) == Ceil(Rat(total_modules, mps))

\* lines 357-367, for a finite inverter_max_power
MaxStringsPerInverter(inverter_max_power, power_per_string, max_strings_current) ==
    LET max_strings_per_inverter_power ==
            Floor(RDiv(inverter_max_power, power_per_string))
    IN  IF Truthy(max_strings_current)
        THEN Min(max_strings_per_inverter_power, max_strings_current.n)
        ELSE max_strings_per_inverter_power

\* line 370
NumInverters(total_strings, max_strings_per_inverter) ==
    Ceil(Rat(total_strings, max_strings_per_inverter))

\* lines 372-403: distribution, sizes, DC:AC ratio and the returned dict
Distribute(system_size_kw, inverter_params, string_results, mps, module_power_w, total_strings, num_inverters) ==
    LET actual_modules == total_strings * mps
        actual_system_size_kw ==
            RDiv(RMul(Num(actual_modules), module_power_w), Num(1000))
        total_inverter_power_kw ==
            RMul(Num(num_inverters),
                 Get(inverter_params, "ac_power",
                     RDiv(inverter_params["max_power"], Num(1000))))
    IN  IF num_inverters = 0
        THEN Raise("ZeroDivisionError", "integer division or modulo by zero", 373)
        ELSE Returned(
            [system_configuration |->
                [target_size_kw |-> system_size_kw,
                 actual_size_kw |-> actual_system_size_kw,
                 total_modules |-> actual_modules,
                 modules_per_string |-> mps,
                 total_strings |-> total_strings,
                 num_inverters |-> num_inverters,
                 strings_per_inverter |-> PyFloorDiv(total_strings, num_inverters),
                 extra_strings |-> PyMod(total_strings, num_inverters),
                 dc_ac_ratio |->
                    IF RLt(Num(0), total_inverter_power_kw)
                    THEN RDiv(actual_system_size_kw, total_inverter_power_kw)
                    ELSE None],
             string_details |-> string_results,
             power_summary |->
                [module_power_w |-> module_power_w,
                 string_power_w |-> RMul(Num(mps), module_power_w),
                 total_dc_power_kw |-> actual_system_size_kw,
                 total_ac_power_kw |-> total_inverter_power_kw],
             configuration_valid |-> TRUE])

\* lines 369-370: the inverter count, then the rest
CountInverters(system_size_kw, inverter_params, string_results, mps, module_power_w, total_strings, max_strings_per_inverter) ==
    IF max_strings_per_inverter = 0
    THEN Raise("ZeroDivisionError", "division by zero", 370)
    ELSE Distribute(system_size_kw, inverter_params, string_results, mps,
                    module_power_w, total_strings,
                    NumInverters(total_strings, max_strings_per_inverter))

\* lines 357-367: without max_power the inverter's power is float('inf'), and
\* int(np.floor(inf / power_per_string)) raises
CapStrings(system_size_kw, inverter_params, string_results, mps, module_power_w, total_strings) ==
    IF Get(inverter_params, "max_power", Inf) = Inf
    THEN Raise("OverflowError", "cannot convert float infinity to integer", 359)
    ELSE CountInverters(system_size_kw, inverter_params, string_results, mps,
                        module_power_w, total_strings,
                        MaxStringsPerInverter(
                            inverter_params["max_power"],
                            RMul(Num(mps), module_power_w),
                            string_results.max_strings_per_inverter_current))

\* lines 342-355: module power, total modules and total strings, then the rest
SizeStrings(system_size_kw, inverter_params, string_results, mps, module_power_w) ==
    IF RIsZero(module_power_w)
    THEN Raise("ZeroDivisionError", "float division by zero", 346)
    ELSE IF mps = 0
    THEN Raise("ZeroDivisionError", "division by zero", 349)
    ELSE CapStrings(system_size_kw, inverter_params, string_results, mps,
                    module_power_w,
                    TotalStrings(TotalModules(system_size_kw, module_power_w), mps))

\* lines 328-403, given what calculate_string_size returned or raised
ConfigureSystem(call, system_size_kw, module_params, inverter_params, modules_per_string) ==
    IF call.kind = "raised" THEN call
    ELSE IF call.value.warnings # <<>>
            /\ ContainsNoValidString(call.value.warnings[1])
    THEN Returned([error |-> "Module and inverter are incompatible",
                   string_results |-> call.value])
    ELSE SizeStrings(system_size_kw, inverter_params, call.value,
                     ModulesPerString(modules_per_string, call.value),
                     RMul(module_params["v_mp"], module_params["i_mp"]))

\* lines 323-326: safety_factor takes its default, 1.0
calculate_system_configuration(globals, system_size_kw, module_params, inverter_params, site_params, modules_per_string) ==
    ConfigureSystem(
        calculate_string_size(globals, module_params, inverter_params,
                              site_params, Num(1)),
        system_size_kw, module_params, inverter_params, modules_per_string)

\* ------------------------------------------------------------------------
\* StringSizer.generate_configuration_table (lines 405-452)
\* ------------------------------------------------------------------------

\* f"{x:.1f}": x to one decimal, as a count of tenths
Format1(x) == Round(RMul(x, Num(10)))

\* f"{x:.2f}": x to two decimals, as a count of hundredths
Format2(x) == Round(RMul(x, Num(100)))

\* lines 440-450: the row of one module count
ConfigurationRow(modules, v_oc_cold, v_mp_cold, v_mp_stc, v_mp_hot, module_params, inverter_params) ==
    [Modules_per_String |-> modules,
     String_Voc_cold |-> Format1(RMul(Num(modules), v_oc_cold)),
     String_Vmp_cold |-> Format1(RMul(Num(modules), v_mp_cold)),
     String_Vmp_STC |-> Format1(RMul(Num(modules), v_mp_stc)),
     String_Vmp_hot |-> Format1(RMul(Num(modules), v_mp_hot)),
     String_Power_STC |->
        Format2(RDiv(RMul(RMul(Num(modules), module_params["v_mp"]),
                          module_params["i_mp"]), Num(1000))),
     Within_MPPT_Range |->
        IF RLe(inverter_params["mppt_min"], RMul(Num(modules), v_mp_hot))
           /\ RLe(RMul(Num(modules), v_mp_cold), inverter_params["mppt_max"])
        THEN "Yes" ELSE "No"]

\* lines 426-452, given what calculate_string_size returned or raised
BuildTable(call, module_params, inverter_params) ==
    LET min_modules == call.value.min_modules_per_string
        max_modules == call.value.max_modules_per_string
        voltages == call.value.voltages
        \* lines 434-438 and 447-448: the keys the loop body reads
        missing_voltage ==
            FirstMissing(voltages, <<"v_mp_hot", "v_mp_stc", "v_mp_cold", "v_oc_cold">>)
        missing_inverter == FirstMissing(inverter_params, <<"mppt_min", "mppt_max">>)
    IN  IF call.kind = "raised" THEN call
        \* lines 429-430: an empty DataFrame
        ELSE IF min_modules > max_modules THEN Returned(<<>>)
        \* the first pass of the loop, modules = min_modules
        ELSE IF missing_voltage # ""
            THEN Raise("KeyError", missing_voltage,
                       CASE missing_voltage = "v_mp_hot" -> 435
                         [] missing_voltage = "v_mp_stc" -> 436
                         [] missing_voltage = "v_mp_cold" -> 437
                         [] OTHER -> 438)
        ELSE IF missing_inverter # ""
            THEN Raise("KeyError", missing_inverter,
                       IF missing_inverter = "mppt_min" THEN 447 ELSE 448)
        ELSE Returned(
            [k \in 1..(max_modules - min_modules + 1) |->
                ConfigurationRow(min_modules + k - 1, voltages["v_oc_cold"],
                                 voltages["v_mp_cold"], voltages["v_mp_stc"],
                                 voltages["v_mp_hot"], module_params,
                                 inverter_params)])

\* lines 422-424
generate_configuration_table(globals, module_params, inverter_params, site_params) ==
    BuildTable(calculate_string_size(globals, module_params, inverter_params,
                                     site_params, Num(1)),
               module_params, inverter_params)

\* ------------------------------------------------------------------------
\* Inputs of the calls
\* ------------------------------------------------------------------------

\* dict without the field key
Without(dict, key) == [k \in DOMAIN dict \ {key} |-> dict[k]]

\* dict with field key set to value
With(dict, key, value) ==
    [k \in DOMAIN dict \cup {key} |-> IF k = key THEN value ELSE dict[k]]

Catalog400W == COMMON_MODULES["Generic 400W Mono"]

Catalog100kW == COMMON_INVERTERS["Generic String 100kW"]

\* module records: the catalog, a record that leaves the temperature
\* coefficients to their defaults, a record with the catalog voltages and
\* another current, records that break v_mp > 0 and i_mp > 0, and a record
\* without the required v_oc
Modules ==
    {COMMON_MODULES[x] : x \in DOMAIN COMMON_MODULES}
    \cup {Without(Without(Catalog400W, "temp_coeff_v_oc"), "temp_coeff_v_mp"),
          With(Catalog400W, "i_mp", Num(5)),
          With(Catalog400W, "v_mp", Num(0)),
          With(Catalog400W, "i_mp", Num(0)),
          Without(Catalog400W, "v_oc")}

\* an inverter record with the three required fields only
Window(mppt_min, mppt_max, vdc_max) ==
    [mppt_min_voltage |-> Num(mppt_min), mppt_max_voltage |-> Num(mppt_max),
     vdc_max |-> Num(vdc_max)]

\* inverter records: the catalog; records that omit the optional fields; an
\* MPPT minimum no module count under vdc_max reaches; a max_power below one
\* string's power; an idc_max below one string's current; a window with
\* mppt_min > mppt_max; an MPPT minimum of 0 V (the low end of the page's
\* input, pages/04 line 284); the 100 kW catalog record with its MPPT
\* maximum raised to vdc_max; a record without the required vdc_max
Inverters ==
    {COMMON_INVERTERS[x] : x \in DOMAIN COMMON_INVERTERS}
    \cup {Window(450, 800, 1000),
          With(Window(450, 800, 1000), "max_power", Num(137000)),
          With(Window(450, 800, 1000), "idc_max", Num(280)),
          Inverter(950, 1000, 1000, 280, 137000, 100000),
          Inverter(450, 800, 1000, 280, 3000, 2500),
          Inverter(450, 800, 1000, 5, 137000, 100000),
          Inverter(800, 450, 1000, 280, 137000, 100000),
          Inverter(0, 800, 1000, 280, 137000, 100000),
          Inverter(450, 1000, 1000, 280, 137000, 100000),
          Without(Catalog100kW, "vdc_max")}

Site(min_temp, max_temp, elevation) ==
    [min_temp |-> Num(min_temp), max_temp |-> Num(max_temp),
     elevation |-> Num(elevation)]

\* site records: the page's defaults, extremes of its input ranges, one with
\* max_temp < min_temp, one that leaves elevation to its default
Sites ==
    {Site(-10, 40, 0), Site(-40, 60, 1500), Site(25, 25, 300), Site(40, -10, 0),
     Without(Site(0, 35, 0), "elevation")}

SafetyFactors == {Num(1), Rat(5, 4)}

\* target capacities in kW; the smallest is below one module's power
SystemSizes == {Num(1000), Num(100), Num(5), Rat(1, 10)}

\* modules_per_string of calculate_system_configuration: None, or a count
\* below, inside and above the usual range
Overrides == {None, Num(1), Num(14), Num(40)}

\* ------------------------------------------------------------------------
\* State
\* ------------------------------------------------------------------------

VARIABLES
    pvlib_installed,    \* whether `import pvlib` succeeded (lines 18-23)
    module_globals,     \* the values the module namespace binds to FreeNames
    sizer,              \* "none", or "constructed" once StringSizer() returned
    call,               \* the last call: the operation and its arguments
    outcome,            \* what that call returned or raised
    catalogs,           \* the dicts bound to COMMON_MODULES and COMMON_INVERTERS
    threads             \* concurrent callers of the one sizer: each one's call

vars == <<pvlib_installed, module_globals, sizer, call, outcome, catalogs, threads>>

\* the number of callers that share the sizer
NumThreads == 2

Threads == 1..NumThreads

\* a caller that is in no call
IdleThread ==
    [pc |-> "idle", op |-> "none", module_ref |-> "", inverter_ref |-> "",
     own_module |-> <<>>, own_inverter |-> <<>>, site_params |-> <<>>,
     system_size_kw |-> None, passed |-> <<>>, locals |-> <<>>,
     nested |-> NoOutcome, outcome |-> NoOutcome]

NoCall ==
    [op |-> "none", module_params |-> <<>>, inverter_params |-> <<>>,
     site_params |-> <<>>, safety_factor |-> None, system_size_kw |-> None,
     modules_per_string |-> None, v_stc |-> None, temperature |-> None,
     temp_coeff |-> None]

\* After import: pvlib is present or not; the module binds none of FreeNames
\* (ModuleNames holds every name it binds); the catalogs are as written at
\* lines 527-591; no caller is in a call.
Init ==
    /\ pvlib_installed \in BOOLEAN
    /\ module_globals = [name \in FreeNames \cap ModuleNames |-> None]
    /\ sizer = "none"
    /\ call = NoCall
    /\ outcome = NoOutcome
    /\ catalogs = [modules |-> COMMON_MODULES, inverters |-> COMMON_INVERTERS]
    /\ threads = [t \in Threads |-> IdleThread]

\* StringSizer() (lines 33-35)
StringSizer_init ==
    /\ sizer = "none"
    /\ call' = [NoCall EXCEPT !.op = "__init__"]
    /\ IF ~pvlib_installed
       THEN /\ outcome' = Raise("ImportError", "pvlib-python required for string sizing", 35)
            /\ sizer' = sizer
       ELSE /\ outcome' = Returned(<<>>)
            /\ sizer' = "constructed"
    /\ UNCHANGED <<pvlib_installed, module_globals, catalogs, threads>>

\* sizer.calculate_string_size(module_params, inverter_params, site_params,
\* safety_factor) (lines 37-300), the first call on a new sizer
Call_calculate_string_size ==
    /\ sizer = "constructed"
    /\ call.op = "__init__"
    /\ \E m \in Modules, i \in Inverters, s \in Sites, f \in SafetyFactors :
        /\ call' = [NoCall EXCEPT !.op = "calculate_string_size",
                                  !.module_params = m, !.inverter_params = i,
                                  !.site_params = s, !.safety_factor = f]
        /\ outcome' = calculate_string_size(module_globals, m, i, s, f)
    /\ UNCHANGED <<pvlib_installed, module_globals, sizer, catalogs, threads>>

\* sizer.calculate_system_configuration(system_size_kw, module_params,
\* inverter_params, site_params, modules_per_string) (lines 302-403)
Call_calculate_system_configuration ==
    /\ sizer = "constructed"
    /\ call.op = "__init__"
    /\ \E m \in Modules, i \in Inverters, s \in Sites,
          kw \in SystemSizes, n \in Overrides :
        /\ call' = [NoCall EXCEPT !.op = "calculate_system_configuration",
                                  !.module_params = m, !.inverter_params = i,
                                  !.site_params = s, !.system_size_kw = kw,
                                  !.modules_per_string = n]
        /\ outcome' = calculate_system_configuration(module_globals, kw, m, i, s, n)
    /\ UNCHANGED <<pvlib_installed, module_globals, sizer, catalogs, threads>>

\* sizer.generate_configuration_table(module_params, inverter_params,
\* site_params) (lines 405-452)
Call_generate_configuration_table ==
    /\ sizer = "constructed"
    /\ call.op = "__init__"
    /\ \E m \in Modules, i \in Inverters, s \in Sites :
        /\ call' = [NoCall EXCEPT !.op = "generate_configuration_table",
                                  !.module_params = m, !.inverter_params = i,
                                  !.site_params = s]
        /\ outcome' = generate_configuration_table(module_globals, m, i, s)
    /\ UNCHANGED <<pvlib_installed, module_globals, sizer, catalogs, threads>>

\* The caller's handler ends (pages/04 lines 123-241, 324-361, 412-480: one
\* StringSizer per click, every exception caught at the end of the handler).
Handler_end ==
    /\ call.op # "none"
    /\ sizer' = "none"
    /\ call' = NoCall
    /\ outcome' = NoOutcome
    /\ UNCHANGED <<pvlib_installed, module_globals, catalogs, threads>>

Next ==
    \/ StringSizer_init
    \/ Handler_end
    \/ Call_calculate_string_size
    \/ Call_calculate_system_configuration
    \/ Call_generate_configuration_table

Spec == Init /\ [][Next]_vars

\* ------------------------------------------------------------------------
\* What the specification of the engine says of a call
\* ------------------------------------------------------------------------

EngineOps ==
    {"calculate_string_size", "calculate_system_configuration",
     "generate_configuration_table"}

\* a finished engine call whose dicts hold every required field
WellFormed ==
    /\ call.op \in EngineOps
    /\ {"v_oc", "v_mp", "i_sc", "i_mp"} \subseteq DOMAIN call.module_params
    /\ {"min_temp", "max_temp"} \subseteq DOMAIN call.site_params
    /\ {"mppt_min_voltage", "mppt_max_voltage", "vdc_max"}
            \subseteq DOMAIN call.inverter_params

\* the stated preconditions: voltages and currents > 0, max_temp >= min_temp,
\* mppt_min < mppt_max <= vdc_max
Preconditions ==
    /\ WellFormed
    /\ \A k \in {"v_oc", "v_mp", "i_sc", "i_mp"} : call.module_params[k].n > 0
    /\ RLe(call.site_params["min_temp"], call.site_params["max_temp"])
    /\ RLt(call.inverter_params["mppt_min_voltage"],
           call.inverter_params["mppt_max_voltage"])
    /\ RLe(call.inverter_params["mppt_max_voltage"], call.inverter_params["vdc_max"])

\* the safety factor of the call (1.0 where the operation takes none)
StatedSafetyFactor ==
    IF call.op = "calculate_string_size" THEN call.safety_factor ELSE Num(1)

\* V_stc * (1 + (coeff / 100) * (T - 25)), coeff in %/C
StatedAt(v_stc, coeff_pct, temp) ==
    RMul(v_stc, RAdd(Num(1), RMul(RDiv(coeff_pct, Num(100)), RSub(temp, Num(25)))))

\* Voc at min_temp, times 1 + (elevation / 300) * 0.01, times safety_factor
Stated_v_oc_cold_corrected ==
    RMul(RMul(StatedAt(call.module_params["v_oc"],
                       Get(call.module_params, "temp_coeff_v_oc", Rat(-29, 100)),
                       call.site_params["min_temp"]),
              RAdd(Num(1),
                   RMul(RDiv(Get(call.site_params, "elevation", Num(0)), Num(300)),
                        Rat(1, 100)))),
         StatedSafetyFactor)

\* Vmp at min_temp
Stated_v_mp_cold ==
    StatedAt(call.module_params["v_mp"],
             Get(call.module_params, "temp_coeff_v_mp", Rat(-35, 100)),
             call.site_params["min_temp"])

\* Vmp at max_temp
Stated_v_mp_hot ==
    StatedAt(call.module_params["v_mp"],
             Get(call.module_params, "temp_coeff_v_mp", Rat(-35, 100)),
             call.site_params["max_temp"])

Stated_max_modules ==
    Min(Floor(RDiv(call.inverter_params["vdc_max"], Stated_v_oc_cold_corrected)),
        Floor(RDiv(call.inverter_params["mppt_max_voltage"], Stated_v_mp_cold)))

\* the BOL minimum: ceil(mppt_min / v_mp_hot), floored at 1
Stated_min_modules ==
    Max(1, Ceil(RDiv(call.inverter_params["mppt_min_voltage"], Stated_v_mp_hot)))

\* the call returned, and what it returned
ReturnedValue == outcome.kind = "returned"

\* the call returned a successful system configuration
Successful ==
    /\ call.op = "calculate_system_configuration"
    /\ ReturnedValue
    /\ "system_configuration" \in DOMAIN outcome.value

\* the call returned the explicit incompatible result: an error and the
\* string-sizing detail, nothing else
IncompatibleResult ==
    /\ call.op = "calculate_system_configuration"
    /\ ReturnedValue
    /\ DOMAIN outcome.value = {"error", "string_results"}

\* the specification's step 1 does not fail: the preconditions hold and the
\* stated minimum does not exceed the stated maximum
CompatibleInputs == Preconditions /\ Stated_min_modules <= Stated_max_modules

\* ------------------------------------------------------------------------
\* Claims
\* ------------------------------------------------------------------------

\* C1: for every well-formed numeric module, inverter and site input,
\* calculate_string_size does not raise: it returns a result that reports
\* min_modules_per_string, max_modules_per_string and a warnings list.
C1_StringSizeNeverRaises ==
    (call.op = "calculate_string_size" /\ WellFormed) =>
        /\ ReturnedValue
        /\ {"min_modules_per_string", "max_modules_per_string", "warnings"}
                \subseteq DOMAIN outcome.value

\* C2: the reported max_modules_per_string is the smaller of
\* floor(vdc_max / v_oc_cold_corrected) and floor(mppt_max_voltage / v_mp_cold),
\* so every count n up to it keeps n * v_oc_cold_corrected <= vdc_max and
\* n * v_mp_cold <= mppt_max_voltage.
C2_MaxModulesIsSmallerBound ==
    (call.op = "calculate_string_size" /\ Preconditions) =>
        /\ ReturnedValue
        /\ outcome.value.max_modules_per_string = Stated_max_modules
        /\ \A n \in 1..outcome.value.max_modules_per_string :
            /\ RLe(RMul(Num(n), Stated_v_oc_cold_corrected),
                   call.inverter_params["vdc_max"])
            /\ RLe(RMul(Num(n), Stated_v_mp_cold),
                   call.inverter_params["mppt_max_voltage"])

\* C3: the reported min_modules_bol and min_modules_per_string are >= 1 for
\* every input, and with no degradation requested min_modules_per_string is
\* max(1, ceil(mppt_min_voltage / v_mp_hot)).
C3_MinModulesAtLeastOne ==
    (call.op = "calculate_string_size" /\ WellFormed) =>
        /\ ReturnedValue
        /\ outcome.value.min_modules_bol >= 1
        /\ outcome.value.min_modules_per_string >= 1
        /\ (Preconditions /\ ~outcome.value.degradation_analysis.enabled) =>
                outcome.value.min_modules_per_string = Stated_min_modules

\* C4: calculate_string_size emits the incompatible-configuration warning
\* exactly when min_modules_per_string > max_modules_per_string, as the first
\* warning; and for an inverter whose MPPT minimum no allowed module count
\* reaches (stated min > stated max) the configuration table is empty.
C4_IncompatibleWarningIffMinAboveMax ==
    /\ (call.op = "calculate_string_size" /\ WellFormed) =>
        /\ ReturnedValue
        /\ (\E k \in DOMAIN outcome.value.warnings :
                outcome.value.warnings[k] = W_NoValidString)
            <=> (outcome.value.min_modules_per_string
                    > outcome.value.max_modules_per_string)
        /\ (outcome.value.min_modules_per_string
                > outcome.value.max_modules_per_string)
            => outcome.value.warnings[1] = W_NoValidString
    /\ (call.op = "generate_configuration_table" /\ Preconditions
            /\ Stated_min_modules > Stated_max_modules) =>
        /\ ReturnedValue
        /\ outcome.value = <<>>

\* C5: calculate_system_configuration returns the explicit incompatible result
\* (error and string-sizing detail only) if and only if string sizing gives
\* min_modules_per_string > max_modules_per_string; otherwise it returns a
\* configuration marked valid.
C5_IncompatibleResultIffMinAboveMax ==
    (call.op = "calculate_system_configuration" /\ WellFormed) =>
        /\ ReturnedValue
        /\ IF IncompatibleResult
           THEN outcome.value.string_results.min_modules_per_string
                    > outcome.value.string_results.max_modules_per_string
           ELSE /\ Successful
                /\ outcome.value.configuration_valid
                /\ outcome.value.string_details.min_modules_per_string
                        <= outcome.value.string_details.max_modules_per_string

\* C6: for every well-formed numeric input with a positive target capacity,
\* calculate_system_configuration does not raise: it returns a configuration
\* or the explicit incompatible result.
C6_SystemConfigurationNeverRaises ==
    (call.op = "calculate_system_configuration" /\ WellFormed
        /\ call.system_size_kw.n > 0) =>
        Successful \/ IncompatibleResult

\* C7: the configuration calculate_system_configuration produces has
\* total_modules = total_strings * modules_per_string and
\* strings_per_inverter * num_inverters + extra_strings = total_strings with
\* 0 <= extra_strings < num_inverters.
C7_StringsConserved ==
    (call.op = "calculate_system_configuration" /\ CompatibleInputs) =>
        /\ Successful
        /\ LET c == outcome.value.system_configuration
           IN  /\ c.total_modules = c.total_strings * c.modules_per_string
               /\ c.strings_per_inverter * c.num_inverters + c.extra_strings
                    = c.total_strings
               /\ 0 <= c.extra_strings
               /\ c.extra_strings < c.num_inverters

\* C8: the configuration calculate_system_configuration produces does not
\* under-deliver: total_strings * modules_per_string * module power
\* >= target_capacity_kw * 1000.
C8_CapacityNotUnderDelivered ==
    (call.op = "calculate_system_configuration" /\ CompatibleInputs) =>
        /\ Successful
        /\ LET c == outcome.value.system_configuration
           IN  RLe(RMul(call.system_size_kw, Num(1000)),
                   RMul(Num(c.total_strings * c.modules_per_string),
                        RMul(call.module_params["v_mp"],
                             call.module_params["i_mp"])))

\* C9: the modules_per_string of the configuration lies in
\* [min_modules_per_string, max_modules_per_string]: an override below the
\* minimum becomes the minimum, one above the maximum becomes the maximum, one
\* inside the range is kept, and without an override the recommended value
\* is used.
C9_ModulesPerStringClamped ==
    (call.op = "calculate_system_configuration" /\ CompatibleInputs) =>
        /\ Successful
        /\ LET used == outcome.value.system_configuration.modules_per_string
               lo == outcome.value.string_details.min_modules_per_string
               hi == outcome.value.string_details.max_modules_per_string
               given == call.modules_per_string
           IN  /\ lo <= used
               /\ used <= hi
               /\ used = IF given = None
                         THEN outcome.value.string_details
                                    .recommended_modules_per_string
                         ELSE IF given.n < lo THEN lo
                         ELSE IF given.n > hi THEN hi
                         ELSE given.n

\* C10: when min <= max, generate_configuration_table returns one row for each
\* module count from min to max, in increasing order, each with the string
\* voltage at Voc-cold, Vmp-cold, Vmp-STC and Vmp-hot; when min > max it
\* returns an empty table; it does not fail.
C10_TableListsEveryCount ==
    (call.op = "generate_configuration_table" /\ Preconditions) =>
        /\ ReturnedValue
        /\ IF Stated_min_modules > Stated_max_modules
           THEN outcome.value = <<>>
           ELSE /\ Len(outcome.value) = Stated_max_modules - Stated_min_modules + 1
                /\ \A k \in 1..Len(outcome.value) :
                    LET row == outcome.value[k]
                        n == Stated_min_modules + k - 1
                    IN  /\ row.Modules_per_String = n
                        /\ row.String_Voc_cold
                            = Format1(RMul(Num(n), Stated_v_oc_cold_corrected))
                        /\ row.String_Vmp_cold
                            = Format1(RMul(Num(n), Stated_v_mp_cold))
                        /\ row.String_Vmp_STC
                            = Format1(RMul(Num(n), call.module_params["v_mp"]))
                        /\ row.String_Vmp_hot
                            = Format1(RMul(Num(n), Stated_v_mp_hot))

\* ------------------------------------------------------------------------
\* The calls each claim is about, as the code ends them
\* ------------------------------------------------------------------------

\* the call ended at line 109, where consider_degradation is not bound
NameErrorAtLine109 == outcome = Raise("NameError", "consider_degradation", 109)

\* C1 case: the 400 W catalog module on the 100 kW catalog inverter at
\* -10 C / 40 C, sea level, safety_factor 1.0; the call raises.
C1_CatalogCallRaises ==
    /\ call.op = "calculate_string_size"
    /\ call.module_params = Catalog400W
    /\ call.inverter_params = Catalog100kW
    /\ call.site_params = Site(-10, 40, 0)
    /\ call.safety_factor = Num(1)
    /\ NameErrorAtLine109

\* C2 case: a call within the preconditions, safety_factor 1.25, whose stated
\* maximum is at least 2 modules; no max_modules_per_string is reported.
C2_NoMaximumReported ==
    /\ call.op = "calculate_string_size"
    /\ Preconditions
    /\ call.safety_factor = Rat(5, 4)
    /\ Stated_max_modules >= 2
    /\ NameErrorAtLine109

\* C3 case: an MPPT minimum of 0 V, for which ceil(mppt_min / v_mp_hot) = 0;
\* no minimum is reported.
C3_NoMinimumReported ==
    /\ call.op = "calculate_string_size"
    /\ WellFormed
    /\ RIsZero(call.inverter_params["mppt_min_voltage"])
    /\ NameErrorAtLine109

\* C4 case: the table is asked for an inverter whose MPPT minimum no allowed
\* module count reaches; the call raises instead of returning an empty table.
C4_IncompatibleTableRaises ==
    /\ call.op = "generate_configuration_table"
    /\ Preconditions
    /\ Stated_min_modules > Stated_max_modules
    /\ NameErrorAtLine109

\* C5 case: a system configuration is asked for such an inverter; the call
\* raises instead of returning the incompatible result.
C5_IncompatibleConfigurationRaises ==
    /\ call.op = "calculate_system_configuration"
    /\ Preconditions
    /\ Stated_min_modules > Stated_max_modules
    /\ ~IncompatibleResult
    /\ NameErrorAtLine109

\* C6 case: a positive target on an inverter record without max_power; the
\* call raises.
C6_ConfigurationWithoutMaxPowerRaises ==
    /\ call.op = "calculate_system_configuration"
    /\ WellFormed
    /\ call.system_size_kw.n > 0
    /\ ~Has(call.inverter_params, "max_power")
    /\ outcome.kind = "raised"

\* C7 case: a compatible pair, 1000 kW and no override; no configuration
\* is returned.
C7_NoStringsReported ==
    /\ call.op = "calculate_system_configuration"
    /\ CompatibleInputs
    /\ call.system_size_kw = Num(1000)
    /\ call.modules_per_string = None
    /\ ~Successful

\* C8 case: 5 kW of the 400 W catalog module (400.32 W: 12.49 modules) with an
\* override below the minimum; no configuration is returned.
C8_NoCapacityReported ==
    /\ call.op = "calculate_system_configuration"
    /\ CompatibleInputs
    /\ call.module_params = Catalog400W
    /\ call.system_size_kw = Num(5)
    /\ call.modules_per_string = Num(1)
    /\ ~Successful

\* C9 case: a compatible pair with an override above the stated maximum; no
\* configuration is returned.
C9_OverrideAboveMaximumRaises ==
    /\ call.op = "calculate_system_configuration"
    /\ CompatibleInputs
    /\ call.modules_per_string # None
    /\ call.modules_per_string.n > Stated_max_modules
    /\ ~Successful

\* C10 case: the table is asked for a compatible pair; the call raises.
C10_CompatibleTableRaises ==
    /\ call.op = "generate_configuration_table"
    /\ Preconditions
    /\ Stated_min_modules <= Stated_max_modules
    /\ outcome.kind = "raised"

\* ------------------------------------------------------------------------
\* Table flags and warnings
\* ------------------------------------------------------------------------

\* C11: every row of the table generate_configuration_table returns is flagged
\* within the MPPT range exactly when its module count lies between the
\* minimum and the maximum modules per string, so every row it emits is
\* flagged "Yes".
C11_RowsFlaggedWithinRange ==
    (call.op = "generate_configuration_table" /\ Preconditions) =>
        /\ ReturnedValue
        /\ \A k \in 1..Len(outcome.value) :
            LET row == outcome.value[k]
            IN  /\ (row.Within_MPPT_Range = "Yes")
                    <=> (/\ Stated_min_modules <= row.Modules_per_String
                         /\ row.Modules_per_String <= Stated_max_modules)
                /\ row.Within_MPPT_Range = "Yes"

\* C11 case: the table is asked for the 400 W catalog module on the 100 kW
\* catalog inverter (12 to 16 modules); no row and no flag is produced.
C11_NoRowFlagged ==
    /\ call.op = "generate_configuration_table"
    /\ call.module_params = Catalog400W
    /\ call.inverter_params = Catalog100kW
    /\ call.site_params = Site(-10, 40, 0)
    /\ Stated_min_modules = 12
    /\ Stated_max_modules = 16
    /\ outcome.kind = "raised"

\* the warnings the specification lists for a returned result, in its order:
\* incompatible, very small, BOL undervoltage, then with degradation enabled
\* additional modules at EOL, the EOL check of the recommended configuration
\* (critical, else below 5 % margin) and the low EOL margin of the minimum
StatedWarnings(r, mppt_min) ==
    LET bol ==
            AppendIf(
                AppendIf(
                    AppendIf(<<>>,
                             r.min_modules_per_string > r.max_modules_per_string,
                             W_NoValidString),
                    r.max_modules_per_string < 2, W_VerySmall),
                RLt(RMul(Num(r.min_modules_per_string), r.voltages.v_mp_hot_bol),
                    mppt_min),
                W_BolUndervoltage)
        recommended_eol ==
            RMul(Num(r.recommended_modules_per_string), r.voltages.v_mp_hot_eol)
        minimum_eol == RMul(Num(r.min_modules_per_string), r.voltages.v_mp_hot_eol)
    IN  IF r.degradation_analysis.enabled # TRUE THEN bol
        ELSE AppendIf(
                AppendIf(
                    AppendIf(
                        AppendIf(bol, r.min_modules_eol.n > r.min_modules_bol,
                                 W_EolAdditional),
                        RLt(recommended_eol, mppt_min), W_EolCritical),
                    RLe(mppt_min, recommended_eol)
                    /\ RLt(recommended_eol, RMul(mppt_min, Rat(105, 100))),
                    W_EolLowMargin5),
                RLt(RMul(RSub(minimum_eol, mppt_min), Num(100)),
                    RMul(mppt_min, Num(10))),
                W_EolLowMargin10)

\* C12: the warnings of a result are all the applicable ones, in the fixed
\* order incompatible, very small, BOL undervoltage, additional modules at
\* EOL, EOL check of the recommended configuration, low EOL margin.
C12_WarningsInFixedOrder ==
    (call.op = "calculate_string_size" /\ Preconditions) =>
        /\ ReturnedValue
        /\ outcome.value.warnings
            = StatedWarnings(outcome.value, call.inverter_params["mppt_min_voltage"])

\* C12 case: an inverter whose MPPT minimum no allowed module count reaches
\* (950 V: the incompatible warning applies); no warnings list is produced.
C12_NoWarningsProduced ==
    /\ call.op = "calculate_string_size"
    /\ Preconditions
    /\ Stated_min_modules > Stated_max_modules
    /\ call.safety_factor = Num(1)
    /\ outcome.kind = "raised"
    /\ outcome.exc = "NameError"

\* ------------------------------------------------------------------------
\* End-of-life degradation
\* ------------------------------------------------------------------------

\* Vmp at max_temp after lifetime years at the module's annual rate (%/year,
\* 0.5 by default): v_mp_hot * (1 - r)^L
Stated_v_mp_hot_eol(lifetime) ==
    RMul(Stated_v_mp_hot,
         RPow(RSub(Num(1),
                   RDiv(Get(call.module_params, "degradation_rate", Rat(5, 10)),
                        Num(100))),
              lifetime))

\* C13: a call returns, and where its result has degradation enabled (rate r,
\* lifetime L), v_mp_hot_eol = v_mp_hot * (1 - r)^L, min_modules_eol =
\* ceil(mppt_min_voltage / v_mp_hot_eol), the reported minimum is
\* max(min_modules_bol, min_modules_eol), and limiting_factor_min is
\* EOL_MPPT_min exactly when min_modules_eol > min_modules_bol, otherwise
\* BOL_MPPT_min.
C13_EolMinimumBinds ==
    (call.op = "calculate_string_size" /\ Preconditions) =>
        /\ ReturnedValue
        /\ outcome.value.degradation_analysis.enabled = TRUE =>
            LET r == outcome.value
                eol == Stated_v_mp_hot_eol(
                            r.degradation_analysis.project_lifetime_years.n)
            IN  /\ r.voltages.v_mp_hot_eol = eol
                /\ r.min_modules_eol
                    = Num(Ceil(RDiv(call.inverter_params["mppt_min_voltage"], eol)))
                /\ r.min_modules_per_string
                    = Max(r.min_modules_bol, r.min_modules_eol.n)
                /\ r.limiting_factor_min
                    = IF r.min_modules_eol.n > r.min_modules_bol
                      THEN "EOL_MPPT_min" ELSE "BOL_MPPT_min"

\* C13 case: the 500 W catalog module, whose record states no
\* degradation_rate (0.5 %/year applies); no EOL minimum is reported.
C13_NoEolMinimumReported ==
    /\ call.op = "calculate_string_size"
    /\ Preconditions
    /\ call.module_params = COMMON_MODULES["Generic 500W Mono"]
    /\ ~Has(call.module_params, "degradation_rate")
    /\ ~Has(module_globals, "project_lifetime_years")
    /\ outcome.kind = "raised"

\* the warnings that exist only with degradation enabled
EolWarnings == {W_EolAdditional, W_EolCritical, W_EolLowMargin5, W_EolLowMargin10}

\* C14: a call that supplies no degradation options behaves as the BOL-only
\* calculator: min_modules_per_string is the BOL minimum, limiting_factor_min
\* is BOL_MPPT_min, no EOL warning is emitted and no lifecycle table is
\* produced.  (calculate_string_size takes no degradation options, lines
\* 37-43: every call is such a call.)
C14_BolOnlyWithoutDegradation ==
    (call.op = "calculate_string_size" /\ Preconditions) =>
        /\ ReturnedValue
        /\ outcome.value.min_modules_per_string = Stated_min_modules
        /\ outcome.value.min_modules_per_string
            = Max(1, outcome.value.min_modules_bol)
        /\ outcome.value.limiting_factor_min = "BOL_MPPT_min"
        /\ \A k \in DOMAIN outcome.value.warnings :
            outcome.value.warnings[k] \notin EolWarnings
        /\ outcome.value.degradation_analysis.lifecycle_analysis = None

\* C14 case: the 600 W catalog module on the 150 kW catalog inverter,
\* called with the four arguments the signature takes; the call raises on
\* the name the degradation switch is read from.
C14_BolOnlyCallRaises ==
    /\ call.op = "calculate_string_size"
    /\ call.module_params = COMMON_MODULES["Generic 600W Bifacial"]
    /\ call.inverter_params = COMMON_INVERTERS["Generic String 150kW"]
    /\ Preconditions
    /\ outcome.exc = "NameError"
    /\ outcome.arg = "consider_degradation"

\* ------------------------------------------------------------------------
\* Current and power caps, DC:AC ratio
\* ------------------------------------------------------------------------

\* min(floor(max_power / per-string power), floor(idc_max / i_mp)), the
\* current cap counted whenever idc_max is supplied
StatedMaxStringsPerInverter(mps) ==
    LET by_power ==
            Floor(RDiv(call.inverter_params["max_power"],
                       RMul(Num(mps), RMul(call.module_params["v_mp"],
                                           call.module_params["i_mp"]))))
    IN  IF Has(call.inverter_params, "idc_max")
        THEN Min(by_power, Floor(RDiv(call.inverter_params["idc_max"],
                                      call.module_params["i_mp"])))
        ELSE by_power

\* C15: in the configuration calculate_system_configuration returns, no
\* inverter carries more strings than min(floor(max_power / per-string
\* power), floor(idc_max / i_mp)) - the current cap counted whenever idc_max
\* is supplied, also when it is 0 - and the inverter count is total_strings
\* divided by that maximum, rounded up.
C15_CurrentCapAppliedWhenPresent ==
    (call.op = "calculate_system_configuration" /\ CompatibleInputs
        /\ Has(call.inverter_params, "max_power")) =>
        /\ ReturnedValue
        /\ Successful =>
            LET c == outcome.value.system_configuration
                cap == StatedMaxStringsPerInverter(c.modules_per_string)
            IN  /\ c.strings_per_inverter + (IF c.extra_strings > 0 THEN 1 ELSE 0)
                    <= cap
                /\ cap > 0 => c.num_inverters = Ceil(Rat(c.total_strings, cap))

\* C15 case: idc_max 5 A under a module current of 9.6 A, a current cap of
\* floor(5 / 9.6) = 0 strings; no configuration is returned.
C15_ZeroCurrentCapRaises ==
    /\ call.op = "calculate_system_configuration"
    /\ CompatibleInputs
    /\ Has(call.inverter_params, "max_power")
    /\ Has(call.inverter_params, "idc_max")
    /\ Floor(RDiv(call.inverter_params["idc_max"], call.module_params["i_mp"])) = 0
    /\ outcome.kind = "raised"

\* C16: the dc_ac_ratio of a returned configuration is None exactly when the
\* inverter record has no ac_power.
C16_RatioNoneWithoutAcPower ==
    (call.op = "calculate_system_configuration" /\ CompatibleInputs) =>
        /\ ReturnedValue
        /\ Successful =>
            ((outcome.value.system_configuration.dc_ac_ratio = None)
                <=> ~Has(call.inverter_params, "ac_power"))

\* C16 case: an inverter record with max_power and without ac_power; no
\* ratio, None or a number, is reported.
C16_NoRatioReported ==
    /\ call.op = "calculate_system_configuration"
    /\ CompatibleInputs
    /\ Has(call.inverter_params, "max_power")
    /\ ~Has(call.inverter_params, "ac_power")
    /\ ~Successful

\* the fields C17 compares
SizingFields ==
    {"min_modules_per_string", "max_modules_per_string",
     "recommended_modules_per_string", "limiting_factor_max",
     "limiting_factor_min", "warnings"}

\* module records with the voltages and coefficients of m and positive
\* currents; inverter records with the voltage limits of i
SameVoltages(m) ==
    {m2 \in Modules :
        /\ DOMAIN m2 = DOMAIN m
        /\ \A k \in DOMAIN m \ {"i_sc", "i_mp"} : m2[k] = m[k]
        /\ m2["i_sc"].n > 0 /\ m2["i_mp"].n > 0}

SameWindow(i) ==
    {i2 \in Inverters :
        /\ {"mppt_min_voltage", "mppt_max_voltage", "vdc_max"} \subseteq DOMAIN i2
        /\ \A k \in {"mppt_min_voltage", "mppt_max_voltage", "vdc_max"} :
                i2[k] = i[k]}

\* C17: a call returns, and the call that differs from it only in idc_max,
\* max_power (present, absent or another value) or the module currents
\* returns the same minimum, maximum, recommended value, limiting factors and
\* warnings.
C17_CapsAreInformational ==
    (call.op = "calculate_string_size" /\ Preconditions) =>
        /\ ReturnedValue
        /\ \A m2 \in SameVoltages(call.module_params),
              i2 \in SameWindow(call.inverter_params) :
            LET other == calculate_string_size(module_globals, m2, i2,
                                               call.site_params, call.safety_factor)
            IN  /\ other.kind = "returned"
                /\ \A k \in SizingFields : other.value[k] = outcome.value[k]

\* C17 case: the 400 W catalog module on the bare 450-800 V / 1000 V window;
\* the model holds records that differ from these in the caps and in the
\* current alone; the call reports none of the compared fields.
C17_NoFieldsToCompare ==
    /\ call.op = "calculate_string_size"
    /\ call.module_params = Catalog400W
    /\ call.inverter_params = Window(450, 800, 1000)
    /\ Cardinality(SameVoltages(call.module_params)) >= 2
    /\ Cardinality(SameWindow(call.inverter_params)) >= 4
    /\ outcome.kind = "raised"

\* ------------------------------------------------------------------------
\* Invalid input
\* ------------------------------------------------------------------------

RequiredModuleFields == {"v_oc", "v_mp", "i_sc", "i_mp"}

RequiredSiteFields == {"min_temp", "max_temp"}

RequiredInverterFields == {"mppt_min_voltage", "mppt_max_voltage", "vdc_max"}

\* the required fields the call's records lack
MissingFields ==
    (RequiredModuleFields \ DOMAIN call.module_params)
    \cup (RequiredSiteFields \ DOMAIN call.site_params)
    \cup (RequiredInverterFields \ DOMAIN call.inverter_params)

\* the fields that make the call's input invalid: missing ones, module
\* voltages and currents that are not positive, and both temperatures when
\* max_temp < min_temp
OffendingFields ==
    MissingFields
    \cup {k \in RequiredModuleFields \cap DOMAIN call.module_params :
            call.module_params[k].n <= 0}
    \cup (IF /\ RequiredSiteFields \subseteq DOMAIN call.site_params
             /\ RLt(call.site_params["max_temp"], call.site_params["min_temp"])
          THEN RequiredSiteFields ELSE {})

\* C18: an engine call whose input is invalid - a missing required field, a
\* module voltage or current that is not positive, max_temp < min_temp -
\* raises an error that names an offending field, and returns nothing.
C18_InvalidInputNamesField ==
    (call.op \in EngineOps /\ OffendingFields # {}) =>
        /\ outcome.kind = "raised"
        /\ outcome.arg \in OffendingFields

\* C18 case: every required field is present and v_mp is 0; the error the
\* call raises names no field of the input.
C18_ZeroVmpErrorNamesNoField ==
    /\ call.op = "calculate_string_size"
    /\ MissingFields = {}
    /\ call.module_params["v_mp"].n = 0
    /\ OffendingFields = {"v_mp"}
    /\ outcome.kind = "raised"
    /\ outcome.arg \notin OffendingFields

\* ------------------------------------------------------------------------
\* Concurrent callers of one StringSizer
\*
\* Each caller's call runs in steps; between two steps any other caller may
\* take steps of its own.  A step reads what the code reads at those lines:
\* the records the caller passed (a catalog entry is passed by reference, so
\* it is read from the catalog as it is then) and the module namespace.
\* ------------------------------------------------------------------------

\* what callers pass as module_params and inverter_params: a catalog entry
\* (pages/04 lines 415-416), or a dict of their own ("custom")
ModuleRefs == {"Generic 400W Mono", "Generic 600W Bifacial", "custom"}

InverterRefs == {"Generic String 100kW", "custom"}

\* the callers' own dicts: a module record without v_oc, an inverter record
\* with the required fields only
OwnModule == Without(Catalog400W, "v_oc")

OwnInverter == Window(450, 800, 1000)

\* the record a reference stands for, as it is now
ModuleOf(t) ==
    IF threads[t].module_ref = "custom" THEN threads[t].own_module
    ELSE catalogs.modules[threads[t].module_ref]

InverterOf(t) ==
    IF threads[t].inverter_ref = "custom" THEN threads[t].own_inverter
    ELSE catalogs.inverters[threads[t].inverter_ref]

\* a caller enters one of the three operations (lines 37, 302, 405)
Thread_call(t) ==
    /\ sizer = "constructed"
    /\ threads[t].pc = "idle"
    /\ \E op \in EngineOps, m \in ModuleRefs, i \in InverterRefs :
        LET own_m == IF m = "custom" THEN OwnModule ELSE <<>>
            own_i == IF i = "custom" THEN OwnInverter ELSE <<>>
        IN  threads' = [threads EXCEPT ![t] =
                [IdleThread EXCEPT
                    !.pc = "extract", !.op = op,
                    !.module_ref = m, !.inverter_ref = i,
                    !.own_module = own_m, !.own_inverter = own_i,
                    !.site_params = Site(-10, 40, 0),
                    !.system_size_kw = Num(5),
                    !.passed =
                        [module_params |->
                            IF m = "custom" THEN own_m ELSE catalogs.modules[m],
                         inverter_params |->
                            IF i = "custom" THEN own_i ELSE catalogs.inverters[i],
                         site_params |-> Site(-10, 40, 0)]]]
    /\ UNCHANGED <<pvlib_installed, module_globals, sizer, call, outcome, catalogs>>

\* Thread_extract_parameters with line 77 written module_params.pop('v_oc'):
\* the read removes the key from the record the caller passed
Thread_extract_parameters_popping(t) ==
    /\ threads[t].pc = "extract"
    /\ LET keys == calculate_string_size(module_globals, ModuleOf(t), InverterOf(t),
                                         threads[t].site_params, Num(1))
           popped == Without(ModuleOf(t), "v_oc")
           own == threads[t].module_ref = "custom"
       IN  /\ threads' = [threads EXCEPT ![t] =
                IF keys.kind = "raised" /\ keys.exc = "KeyError"
                THEN [@ EXCEPT !.pc = "done", !.outcome = keys,
                               !.own_module = IF own THEN popped ELSE @]
                ELSE [@ EXCEPT !.pc = "size",
                               !.own_module = IF own THEN popped ELSE @,
                               !.locals = ExtractParameters(ModuleOf(t), InverterOf(t),
                                                            threads[t].site_params,
                                                            Num(1))]]
           /\ catalogs' =
                IF own THEN catalogs
                ELSE [catalogs EXCEPT !.modules[threads[t].module_ref] = popped]
    /\ UNCHANGED <<pvlib_installed, module_globals, sizer, call, outcome>>

\* lines 76-93 and 123 of calculate_string_size (entered directly, or at
\* lines 324-326 and 422-424 with safety_factor 1.0): the records are read
\* into locals, or a missing key ends the call
Thread_extract_parameters(t) ==
    /\ threads[t].pc = "extract"
    /\ LET keys == calculate_string_size(module_globals, ModuleOf(t), InverterOf(t),
                                         threads[t].site_params, Num(1))
       IN  threads' = [threads EXCEPT ![t] =
                IF keys.kind = "raised" /\ keys.exc = "KeyError"
                THEN [@ EXCEPT !.pc = "done", !.outcome = keys]
                ELSE [@ EXCEPT !.pc = "size",
                               !.locals = ExtractParameters(ModuleOf(t), InverterOf(t),
                                                            threads[t].site_params,
                                                            Num(1))]]
    /\ UNCHANGED <<pvlib_installed, module_globals, sizer, call, outcome, catalogs>>

\* lines 95-300: the names of line 109 are looked up in the module namespace
\* and the string is sized from the locals
Thread_size_string(t) ==
    /\ threads[t].pc = "size"
    /\ LET sized == SizeString(module_globals, threads[t].locals, InverterOf(t))
       IN  threads' = [threads EXCEPT ![t] =
                IF threads[t].op = "calculate_string_size"
                THEN [@ EXCEPT !.pc = "done", !.outcome = sized]
                ELSE [@ EXCEPT !.pc = "finish", !.nested = sized]]
    /\ UNCHANGED <<pvlib_installed, module_globals, sizer, call, outcome, catalogs>>

\* Thread_finish with the keys of lines 447-448 added to the inverter record
\* in place (inverter_params['mppt_min'] = inverter_params['mppt_min_voltage'],
\* likewise mppt_max) before the table is built
Thread_finish_aliasing(t) ==
    /\ threads[t].pc = "finish"
    /\ LET own == threads[t].inverter_ref = "custom"
           aliased ==
                IF threads[t].op = "generate_configuration_table"
                THEN With(With(InverterOf(t), "mppt_min",
                               InverterOf(t)["mppt_min_voltage"]),
                          "mppt_max", InverterOf(t)["mppt_max_voltage"])
                ELSE InverterOf(t)
       IN  /\ threads' = [threads EXCEPT ![t] =
                [@ EXCEPT !.pc = "done",
                          !.own_inverter = IF own THEN aliased ELSE @,
                          !.outcome =
                            IF threads[t].op = "calculate_system_configuration"
                            THEN ConfigureSystem(threads[t].nested,
                                                 threads[t].system_size_kw,
                                                 ModuleOf(t), aliased, None)
                            ELSE BuildTable(threads[t].nested, ModuleOf(t), aliased)]]
           /\ catalogs' =
                IF own THEN catalogs
                ELSE [catalogs EXCEPT !.inverters[threads[t].inverter_ref] = aliased]
    /\ UNCHANGED <<pvlib_installed, module_globals, sizer, call, outcome>>

\* lines 328-403 of calculate_system_configuration, lines 426-452 of
\* generate_configuration_table: the rest of the operation, after its call
\* to calculate_string_size
Thread_finish(t) ==
    /\ threads[t].pc = "finish"
    /\ threads' = [threads EXCEPT ![t] =
            [@ EXCEPT !.pc = "done",
                      !.outcome =
                        IF threads[t].op = "calculate_system_configuration"
                        THEN ConfigureSystem(threads[t].nested,
                                             threads[t].system_size_kw,
                                             ModuleOf(t), InverterOf(t), None)
                        ELSE BuildTable(threads[t].nested, ModuleOf(t),
                                        InverterOf(t))]]
    /\ UNCHANGED <<pvlib_installed, module_globals, sizer, call, outcome, catalogs>>

\* the caller takes the outcome and is free to call again
Thread_return(t) ==
    /\ threads[t].pc = "done"
    /\ threads' = [threads EXCEPT ![t] = IdleThread]
    /\ UNCHANGED <<pvlib_installed, module_globals, sizer, call, outcome, catalogs>>

NextThreads ==
    \/ StringSizer_init
    \/ \E t \in Threads : Thread_call(t)
    \/ \E t \in Threads : Thread_extract_parameters(t)
    \/ \E t \in Threads : Thread_size_string(t)
    \/ \E t \in Threads : Thread_finish(t)
    \/ \E t \in Threads : Thread_return(t)

SpecThreads == Init /\ [][NextThreads]_vars

\* the records caller t passed, as they are now
RecordsOf(t) ==
    [module_params |-> ModuleOf(t), inverter_params |-> InverterOf(t),
     site_params |-> threads[t].site_params]

\* what caller t's call yields when it is the only call made after import,
\* on the records as they were when passed
RunAlone(t) ==
    LET a == threads[t].passed
        imported == [name \in FreeNames \cap ModuleNames |-> None]
    IN  CASE threads[t].op = "calculate_string_size" ->
                calculate_string_size(imported, a.module_params, a.inverter_params,
                                      a.site_params, Num(1))
          [] threads[t].op = "calculate_system_configuration" ->
                calculate_system_configuration(imported, threads[t].system_size_kw,
                                               a.module_params, a.inverter_params,
                                               a.site_params, None)
          [] OTHER ->
                generate_configuration_table(imported, a.module_params,
                                             a.inverter_params, a.site_params)

RaisedLimit(i, key) ==
    {i2 \in Inverters :
        /\ DOMAIN i2 = DOMAIN i
        /\ \A k \in DOMAIN i \ {key} : i2[k] = i[k]
        /\ RLt(i[key], i2[key])}

\* C21: a call returns; the same call with mppt_max_voltage raised and
\* nothing else changed returns a max_modules_per_string that is not smaller,
\* and the same call with mppt_min_voltage raised returns a
\* min_modules_per_string that is not smaller.
C21_LimitsMonotone ==
    (call.op = "calculate_string_size" /\ Preconditions) =>
        /\ ReturnedValue
        /\ \A i2 \in RaisedLimit(call.inverter_params, "mppt_max_voltage") :
            LET other == calculate_string_size(module_globals, call.module_params,
                                i2, call.site_params, call.safety_factor)
            IN  /\ other.kind = "returned"
                /\ other.value.max_modules_per_string
                        >= outcome.value.max_modules_per_string
        /\ \A i2 \in RaisedLimit(call.inverter_params, "mppt_min_voltage") :
            LET other == calculate_string_size(module_globals, call.module_params,
                                i2, call.site_params, call.safety_factor)
            IN  /\ other.kind = "returned"
                /\ other.value.min_modules_per_string
                        >= outcome.value.min_modules_per_string

\* C21 case: the 100 kW catalog inverter, which the model also holds with
\* mppt_max_voltage raised from 800 to 1000 V and with mppt_min_voltage
\* lowered from 450 to 0 V; the call reports neither bound.
C21_NoBoundsToCompare ==
    /\ call.op = "calculate_string_size"
    /\ Preconditions
    /\ call.inverter_params = Catalog100kW
    /\ RaisedLimit(call.inverter_params, "mppt_max_voltage") # {}
    /\ \E i \in Inverters :
            call.inverter_params \in RaisedLimit(i, "mppt_min_voltage")
    /\ outcome.kind = "raised"

\* C22: a call returns, and where its result has degradation enabled with
\* lifetime L, the same call under every shorter lifetime returns a
\* min_modules_eol, and a min_modules_per_string, that is not larger.
C22_LongerLifetimeNeverLowersEolMinimum ==
    (call.op = "calculate_string_size" /\ Preconditions
        /\ Get(call.module_params, "degradation_rate", Rat(5, 10)).n > 0) =>
        /\ ReturnedValue
        /\ outcome.value.degradation_analysis.enabled = TRUE =>
            \A shorter \in 0..(outcome.value.degradation_analysis
                                        .project_lifetime_years.n - 1) :
                LET other == calculate_string_size(
                                With(module_globals, "project_lifetime_years", shorter),
                                call.module_params, call.inverter_params,
                                call.site_params, call.safety_factor)
                IN  /\ other.kind = "returned"
                    /\ other.value.min_modules_eol.n
                            <= outcome.value.min_modules_eol.n
                    /\ other.value.min_modules_per_string
                            <= outcome.value.min_modules_per_string

\* C22 case: the 600 W catalog module (0.5 %/year by default) on the 1500 V
\* catalog inverter; the call takes no lifetime, finds none in the module
\* namespace and reports no min_modules_eol.
C22_NoLifetimeToLengthen ==
    /\ call.op = "calculate_string_size"
    /\ Preconditions
    /\ call.module_params = COMMON_MODULES["Generic 600W Bifacial"]
    /\ call.inverter_params = COMMON_INVERTERS["Generic String 1500V"]
    /\ Get(call.module_params, "degradation_rate", Rat(5, 10)).n > 0
    /\ ~Has(module_globals, "consider_degradation")
    /\ ~Has(module_globals, "project_lifetime_years")
    /\ outcome.kind = "raised"

\* ------------------------------------------------------------------------
\* The worked scenario
\* ------------------------------------------------------------------------

\* the call of the scenario: the 400 W catalog module (v_oc 49.5, v_mp 41.7,
\* -0.28 / -0.37 %/C) on the 100 kW catalog inverter (450-800 V, 1000 V) at
\* -10 C / 40 C, sea level, safety factor 1.0
ScenarioCall ==
    /\ call.op = "calculate_string_size"
    /\ call.module_params = Catalog400W
    /\ Catalog400W["v_oc"] = Rat(495, 10) /\ Catalog400W["v_mp"] = Rat(417, 10)
    /\ Catalog400W["temp_coeff_v_oc"] = Rat(-28, 100)
    /\ Catalog400W["temp_coeff_v_mp"] = Rat(-37, 100)
    /\ call.inverter_params = Catalog100kW
    /\ call.site_params = Site(-10, 40, 0)
    /\ call.safety_factor = Num(1)

\* C23: the scenario call returns max_modules_per_string 16 with limiting
\* factor MPPT_max, the Voc bound floor(vdc_max / v_oc_cold) being 18,
\* min_modules_per_string 12, recommended 14, and an empty warnings list.
C23_ScenarioResult ==
    ScenarioCall =>
        /\ ReturnedValue
        /\ outcome.value.max_modules_per_string = 16
        /\ outcome.value.limiting_factor_max = "MPPT_max"
        /\ Floor(RDiv(call.inverter_params["vdc_max"],
                      outcome.value.voltages.v_oc_cold_bol)) = 18
        /\ outcome.value.min_modules_per_string = 12
        /\ outcome.value.recommended_modules_per_string = 14
        /\ outcome.value.warnings = <<>>

\* C23 case: the scenario call was made, its stated bounds are 12 and 16
\* modules, and it ended in an exception.
C23_ScenarioRaises ==
    /\ ScenarioCall
    /\ Stated_min_modules = 12
    /\ Stated_max_modules = 16
    /\ outcome.kind = "raised"
    /\ outcome.line = 109

\* ------------------------------------------------------------------------
\* Limiting factor, recommended count, recommended-configuration check
\* ------------------------------------------------------------------------

\* floor(vdc_max / v_oc_cold_corrected) and floor(mppt_max_voltage /
\* v_mp_cold), the two upper bounds
Stated_max_modules_voc ==
    Floor(RDiv(call.inverter_params["vdc_max"], Stated_v_oc_cold_corrected))

Stated_max_modules_mppt ==
    Floor(RDiv(call.inverter_params["mppt_max_voltage"], Stated_v_mp_cold))

\* C24: a call returns a limiting_factor_max of Voc_max or MPPT_max; Voc_max
\* only with max_modules_per_string = floor(vdc_max / v_oc_cold_corrected),
\* MPPT_max only with max_modules_per_string = floor(mppt_max_voltage /
\* v_mp_cold), and MPPT_max when the two bounds are equal.
C24_LimitingFactorIsBinding ==
    (call.op = "calculate_string_size" /\ Preconditions) =>
        /\ ReturnedValue
        /\ outcome.value.limiting_factor_max \in {"Voc_max", "MPPT_max"}
        /\ outcome.value.limiting_factor_max = "Voc_max" =>
                outcome.value.max_modules_per_string = Stated_max_modules_voc
        /\ outcome.value.limiting_factor_max = "MPPT_max" =>
                outcome.value.max_modules_per_string = Stated_max_modules_mppt
        /\ Stated_max_modules_voc = Stated_max_modules_mppt =>
                outcome.value.limiting_factor_max = "MPPT_max"

\* C24 case: safety factor 1.25 on the 1500 V catalog inverter, where the
\* Voc bound is the smaller of the two; no limiting factor is reported.
C24_NoLimitingFactorReported ==
    /\ call.op = "calculate_string_size"
    /\ Preconditions
    /\ call.inverter_params = COMMON_INVERTERS["Generic String 1500V"]
    /\ call.safety_factor = Rat(5, 4)
    /\ Stated_max_modules_voc < Stated_max_modules_mppt
    /\ outcome.kind = "raised"

\* a finished call with every required field present and module voltages
\* and currents > 0; the inverter window may be any, mppt_min > mppt_max
\* included
PositiveModule ==
    /\ WellFormed
    /\ \A k \in {"v_oc", "v_mp", "i_sc", "i_mp"} : call.module_params[k].n > 0
    /\ RLe(call.site_params["min_temp"], call.site_params["max_temp"])

\* C25: a call returns, and its recommended_modules_per_string is an integer
\* nearest to (min_modules_per_string + max_modules_per_string) / 2: it
\* differs from that mean by at most one half, also where the sum is odd and
\* where the minimum exceeds the maximum.
C25_RecommendedIsRoundedMean ==
    (call.op = "calculate_string_size" /\ PositiveModule) =>
        /\ ReturnedValue
        /\ Abs(2 * outcome.value.recommended_modules_per_string
                - (outcome.value.min_modules_per_string
                    + outcome.value.max_modules_per_string)) <= 1

\* C25 case: a call whose stated bounds have an odd sum; no recommended
\* count is reported.
C25_NoRecommendedForOddSum ==
    /\ call.op = "calculate_string_size"
    /\ Preconditions
    /\ (Stated_min_modules + Stated_max_modules) % 2 = 1
    /\ outcome.kind = "raised"

\* warning w is in the result r
HasWarning(r, w) == \E k \in DOMAIN r.warnings : r.warnings[k] = w

\* C26: a call returns, and where its result has degradation enabled the
\* critical EOL warning is present exactly when recommended x v_mp_hot_eol <
\* mppt_min_voltage, the below-5 % advisory exactly when that voltage is at
\* least mppt_min_voltage and below 1.05 x mppt_min_voltage, and the two are
\* never both present.
C26_RecommendedEolCheckExclusive ==
    (call.op = "calculate_string_size" /\ Preconditions) =>
        /\ ReturnedValue
        /\ outcome.value.degradation_analysis.enabled = TRUE =>
            LET r == outcome.value
                mppt_min == call.inverter_params["mppt_min_voltage"]
                recommended_eol ==
                    RMul(Num(r.recommended_modules_per_string),
                         r.voltages.v_mp_hot_eol)
            IN  /\ HasWarning(r, W_EolCritical) <=> RLt(recommended_eol, mppt_min)
                /\ HasWarning(r, W_EolLowMargin5) <=>
                        /\ RLe(mppt_min, recommended_eol)
                        /\ RLt(recommended_eol, RMul(mppt_min, Rat(105, 100)))
                /\ ~(HasWarning(r, W_EolCritical) /\ HasWarning(r, W_EolLowMargin5))

\* C26 case: the 500 W catalog module on the 1 MW catalog inverter; the
\* degradation switch is read from a name nothing binds, and no warnings
\* list, with or without an EOL check, is returned.
C26_NoEolCheckMade ==
    /\ call.op = "calculate_string_size"
    /\ Preconditions
    /\ call.module_params = COMMON_MODULES["Generic 500W Mono"]
    /\ call.inverter_params = COMMON_INVERTERS["Generic Central 1MW"]
    /\ ~Has(module_globals, "consider_degradation")
    /\ outcome = Raise("NameError", "consider_degradation", 109)

\* ------------------------------------------------------------------------
\* Temperature corrections (lines 455-484)
\* ------------------------------------------------------------------------

\* the correction with the temperature difference taken as 25 - T
VoltageAtReversedDifference(v_stc, temperature, temp_coeff) ==
    RMul(v_stc, RAdd(Num(1), RMul(RDiv(temp_coeff, Num(100)),
                                  RSub(Num(25), temperature))))

\* calculate_voc_at_temperature(v_oc_stc, temperature, temp_coeff), temp_coeff
\* in %/C (line 469)
calculate_voc_at_temperature(v_oc_stc, temperature, temp_coeff) ==
    RMul(v_oc_stc, RAdd(Num(1), RMul(RDiv(temp_coeff, Num(100)),
                                     RSub(temperature, Num(25)))))

\* calculate_vmp_at_temperature(v_mp_stc, temperature, temp_coeff) (line 484)
calculate_vmp_at_temperature(v_mp_stc, temperature, temp_coeff) ==
    RMul(v_mp_stc, RAdd(Num(1), RMul(RDiv(temp_coeff, Num(100)),
                                     RSub(temperature, Num(25)))))

\* STC voltages: the catalog's v_oc and v_mp, and 0 V
StcVoltages ==
    {COMMON_MODULES[x][k] : x \in DOMAIN COMMON_MODULES, k \in {"v_oc", "v_mp"}}
    \cup {Num(0)}

\* cell temperatures in C: the ends of the page's site inputs, the page's
\* defaults, STC, and one degree to either side of STC
Temperatures == {Num(-40), Num(-10), Num(24), Num(25), Num(26), Num(40), Num(60)}

\* coefficients in %/C: the catalog's, the engine's defaults, 0, and a
\* positive one
TempCoeffs ==
    {COMMON_MODULES[x][k] :
        x \in DOMAIN COMMON_MODULES, k \in {"temp_coeff_v_oc", "temp_coeff_v_mp"}}
    \cup {Rat(-29, 100), Rat(-35, 100), Num(0), Rat(5, 100)}

\* calculate_voc_at_temperature(...) called from outside a handler; the
\* function reads its three arguments only (lines 457-469)
Call_calculate_voc_at_temperature ==
    /\ call.op = "none"
    /\ \E v \in StcVoltages, t \in Temperatures, c \in TempCoeffs :
        /\ call' = [NoCall EXCEPT !.op = "calculate_voc_at_temperature",
                                  !.v_stc = v, !.temperature = t, !.temp_coeff = c]
        /\ outcome' = Returned(calculate_voc_at_temperature(v, t, c))
    /\ UNCHANGED <<pvlib_installed, module_globals, sizer, catalogs, threads>>

\* calculate_vmp_at_temperature(...) (lines 472-484)
Call_calculate_vmp_at_temperature ==
    /\ call.op = "none"
    /\ \E v \in StcVoltages, t \in Temperatures, c \in TempCoeffs :
        /\ call' = [NoCall EXCEPT !.op = "calculate_vmp_at_temperature",
                                  !.v_stc = v, !.temperature = t, !.temp_coeff = c]
        /\ outcome' = Returned(calculate_vmp_at_temperature(v, t, c))
    /\ UNCHANGED <<pvlib_installed, module_globals, sizer, catalogs, threads>>

\* the module's temperature functions beside the sizer's first operation
NextTemperature ==
    \/ StringSizer_init
    \/ Handler_end
    \/ Call_calculate_string_size
    \/ Call_calculate_voc_at_temperature
    \/ Call_calculate_vmp_at_temperature

SpecTemperature == Init /\ [][NextTemperature]_vars

\* the call ran lines 95-104 of calculate_string_size: every required field
\* was present, and the call went on to line 109
RanTemperatureLines ==
    /\ call.op = "calculate_string_size"
    /\ WellFormed
    /\ outcome.kind = "returned" \/ outcome.line >= 109

\* C27: with a positive STC voltage and a temperature coefficient <= 0, the
\* Voc computed at a temperature <= 25 C is >= the STC Voc and the Vmp
\* computed at a temperature >= 25 C is <= the STC Vmp; for the two
\* temperature functions, and for v_oc_cold (line 99, at min_temp) and
\* v_mp_hot_bol (line 104, at max_temp) of calculate_string_size.
C27_TemperatureDirection ==
    /\ (call.op = "calculate_voc_at_temperature"
            /\ call.v_stc.n > 0 /\ call.temp_coeff.n <= 0
            /\ RLe(call.temperature, Num(25))) =>
        (ReturnedValue /\ RLe(call.v_stc, outcome.value))
    /\ (call.op = "calculate_vmp_at_temperature"
            /\ call.v_stc.n > 0 /\ call.temp_coeff.n <= 0
            /\ RLe(Num(25), call.temperature)) =>
        (ReturnedValue /\ RLe(outcome.value, call.v_stc))
    /\ RanTemperatureLines =>
        LET p == ExtractParameters(call.module_params, call.inverter_params,
                                   call.site_params, call.safety_factor)
        IN  /\ (p.v_oc_stc.n > 0 /\ p.temp_coeff_voc.n <= 0
                    /\ RLe(p.min_temp, Num(25))) =>
                RLe(p.v_oc_stc,
                    AtTemperature(p.v_oc_stc, p.temp_coeff_voc, p.min_temp))
            /\ (p.v_mp_stc.n > 0 /\ p.temp_coeff_vmp.n <= 0
                    /\ RLe(Num(25), p.max_temp)) =>
                RLe(AtTemperature(p.v_mp_stc, p.temp_coeff_vmp, p.max_temp),
                    p.v_mp_stc)

\* C27 case: the Voc of the 400 W catalog module (49.5 V, -0.28 %/C) computed
\* at -10 C: 49.5 * 1.098 = 54.351 V, above the STC value.
C27_ColdVocAboveStc ==
    /\ call.op = "calculate_voc_at_temperature"
    /\ call.v_stc = Catalog400W["v_oc"]
    /\ call.temp_coeff = Catalog400W["temp_coeff_v_oc"]
    /\ call.temperature = Num(-10)
    /\ outcome = Returned(Rat(54351, 1000))
    /\ RLt(call.v_stc, outcome.value)

\* ------------------------------------------------------------------------
\* Inverter loading
\* ------------------------------------------------------------------------

\* the largest number of strings on one inverter of configuration c
LargestStringCount(c) ==
    c.strings_per_inverter + (IF c.extra_strings > 0 THEN 1 ELSE 0)

\* C28: in a successful system configuration the largest per-inverter string
\* count is at most the maximum strings per inverter, that count of strings
\* does not exceed the inverter's max DC power, and no smaller number of
\* inverters carries total_strings within that maximum.
C28_NoInverterOverloaded ==
    (call.op = "calculate_system_configuration" /\ CompatibleInputs
        /\ Has(call.inverter_params, "max_power")) =>
        /\ ReturnedValue
        /\ Successful =>
            LET c == outcome.value.system_configuration
                cap == StatedMaxStringsPerInverter(c.modules_per_string)
                string_power ==
                    RMul(Num(c.modules_per_string),
                         RMul(call.module_params["v_mp"], call.module_params["i_mp"]))
            IN  /\ LargestStringCount(c) <= cap
                /\ RLe(RMul(Num(LargestStringCount(c)), string_power),
                       call.inverter_params["max_power"])
                /\ \A n \in 1..(c.num_inverters - 1) :
                        Ceil(Rat(c.total_strings, n)) > cap

\* C28 case: 1000 kW on the 100 kW catalog inverter, 179 strings of 14
\* modules against a cap of 24 strings by power; no configuration is
\* returned.
C28_NoLoadingReported ==
    /\ call.op = "calculate_system_configuration"
    /\ CompatibleInputs
    /\ call.module_params = Catalog400W
    /\ call.inverter_params = Catalog100kW
    /\ call.system_size_kw = Num(1000)
    /\ call.modules_per_string = None
    /\ StatedMaxStringsPerInverter(14) = 24
    /\ ~Successful
    /\ outcome.kind = "raised"

\* ------------------------------------------------------------------------
\* BOL undervoltage caution
\* ------------------------------------------------------------------------

\* C29: a call returns; with a positive Vmp at max_temp its reported minimum
\* is at least ceil(mppt_min_voltage / v_mp_hot_bol), the minimum times
\* v_mp_hot_bol reaches mppt_min_voltage, and the BOL undervoltage caution is
\* not among its warnings.
C29_BolCautionNeverEmitted ==
    (call.op = "calculate_string_size" /\ WellFormed) =>
        /\ ReturnedValue
        /\ Stated_v_mp_hot.n > 0 =>
            /\ outcome.value.min_modules_per_string
                >= Ceil(RDiv(call.inverter_params["mppt_min_voltage"],
                             outcome.value.voltages.v_mp_hot_bol))
            /\ RLe(call.inverter_params["mppt_min_voltage"],
                   RMul(Num(outcome.value.min_modules_per_string),
                        outcome.value.voltages.v_mp_hot_bol))
            /\ ~HasWarning(outcome.value, W_BolUndervoltage)

\* C29 case: a module with positive Vmp at max_temp under an MPPT minimum of
\* 450 V that takes 12 modules to reach; neither the minimum nor a warnings
\* list is reported.
C29_NoMinimumToCaution ==
    /\ call.op = "calculate_string_size"
    /\ WellFormed
    /\ Stated_v_mp_hot.n > 0
    /\ call.inverter_params["mppt_min_voltage"] = Num(450)
    /\ Stated_min_modules = 12
    /\ ~ReturnedValue

\* ------------------------------------------------------------------------
\* Units of the DC:AC ratio
\* ------------------------------------------------------------------------

\* C30: for an inverter record with ac_power (in W, as max_power is), a
\* configuration is returned whose dc_ac_ratio x num_inverters x ac_power
\* equals total_modules x module_power_w, and whose total_ac_power_kw equals
\* num_inverters x ac_power / 1000.
C30_RatioInOneUnit ==
    (call.op = "calculate_system_configuration" /\ CompatibleInputs
        /\ Has(call.inverter_params, "max_power")
        /\ Has(call.inverter_params, "ac_power")) =>
        /\ ReturnedValue
        /\ Successful =>
            LET c == outcome.value.system_configuration
                p == outcome.value.power_summary
                ac_power == call.inverter_params["ac_power"]
            IN  /\ c.dc_ac_ratio # None
                /\ RMul(c.dc_ac_ratio, RMul(Num(c.num_inverters), ac_power))
                    = RMul(Num(c.total_modules), p.module_power_w)
                /\ p.total_ac_power_kw
                    = RDiv(RMul(Num(c.num_inverters), ac_power), Num(1000))

\* C30 case: 100 kW on the 150 kW catalog inverter, whose ac_power is
\* 150000 W beside a max_power of 205000 W; no ratio is reported.
C30_NoRatioForWattInverter ==
    /\ call.op = "calculate_system_configuration"
    /\ CompatibleInputs
    /\ call.inverter_params = COMMON_INVERTERS["Generic String 150kW"]
    /\ call.inverter_params["ac_power"] = Num(150000)
    /\ call.inverter_params["max_power"] = Num(205000)
    /\ call.system_size_kw = Num(100)
    /\ outcome.kind = "raised"

=============================================================================
